---- MODULE Spec2Model ----
(***************************************************************************)
(* TradingView Alert Bridge: the webhook pipeline of                       *)
(* backend/app/main.py (process_tradingview_alert, get_exchange_client)    *)
(* over the Redis stores of backend/app/database.py.                       *)
(*                                                                         *)
(* Every endpoint is an `async def` that never awaits: the event loop runs *)
(* one handler to completion before the next one starts.  The webhook      *)
(* handler is modelled step by step (one step per external call); the      *)
(* other handlers are enabled only while no webhook invocation is running. *)
(*                                                                         *)
(* Floats are modelled as exact rationals [n, d] in lowest terms (float    *)
(* rounding is not modelled).  An Optional value is <<>> (None) or <<v>>.  *)
(***************************************************************************)
EXTENDS Integers, Sequences, FiniteSets, TLC

VARIABLES
    vault,             \* Redis keys user:{u}:exchange:{e}
    configs,           \* Redis keys user:{u}:alert_config:{name}
    history,           \* Redis keys alert:{u}:{timestamp}
    exchange_clients,  \* main.py: the process-wide client cache
    built,             \* per cache key: clients constructed so far
    orders,            \* orders the exchange accepted, oldest first
    written,           \* per user: completed save_alert_history calls
    now,               \* last value datetime.now() returned
    inv,               \* the webhook invocation running or last finished
    prev,              \* the invocation finished before inv, if any
    nAlerts            \* webhook invocations started so far

vars == <<vault, configs, history, exchange_clients, built, orders, written,
          now, inv, prev, nAlerts>>

\* ------------------------------------------------------------- bounds
MaxAlerts == 2
MaxPipeAlerts == 1

\* ------------------------------------------------------------- values
None == <<>>
Some(v) == <<v>>

\* Python truthiness of an Optional[float]: None and 0 are falsy.
Truthy(opt) == opt # None /\ opt[1] # 0

Abs(x) == IF x < 0 THEN -x ELSE x

RECURSIVE GCD(_, _)
GCD(a, b) == IF b = 0 THEN a ELSE GCD(b, a % b)

\* The float n/d (d # 0), as a fraction in lowest terms with d > 0.
Rat(n, d) ==
    LET g == GCD(Abs(n), Abs(d))
        s == IF d < 0 THEN -1 ELSE 1
    IN  [n |-> (s * n) \div g, d |-> (s * d) \div g]

UserIds == {"default", "guest"}
AdminUser == "default"
Exchanges == {"binance", "bybit"}
ConfigNames == {"c1", "c2"}
StoredNames == {"c1"}
ApiKeys == {"k1", "k2"}
OrderTypes == {"market", "limit", "stop_loss", "take_profit"}
PositionSides == {"long", "short"}
Symbols == {<<"BTC", "USDT">>}
Currencies == {"BTC", "USDT"}

OptOf(S) == {None} \cup {Some(v) : v \in S}

\* One external call of an invocation; ok = FALSE when the call raised.
Call(op, ok) == [op |-> op, ok |-> ok]

ConfigsOver(exs, types, sides, qtys, pcts, prices) ==
    [exchange : exs, symbol : Symbols, order_type : types,
     position_side : sides, quantity : qtys, quantity_percentage : pcts,
     price : prices]

\* What POST /api/config is called with in Spec.
AdminConfigs ==
    ConfigsOver(Exchanges, {"market"}, {"long"},
                OptOf({2}), {Some(10)}, {None})

\* What the configuration store holds when SpecCache starts, per exchange.
CacheConfig(exchange) ==
    [exchange |-> exchange, symbol |-> <<"BTC", "USDT">>,
     order_type |-> "market", position_side |-> "long", quantity |-> Some(2),
     quantity_percentage |-> None, price |-> None]

\* What the configuration store may hold when SpecPipe starts.
StoredConfigs ==
    ConfigsOver({"binance"}, OrderTypes, PositionSides,
                OptOf({0, -1, 2}), OptOf({0, -10, 10}), OptOf({0, 30}))

\* What the configuration store may hold when SpecStore starts: the Redis
\* value is read back with json.loads and never validated, so the order type
\* may also be a string outside OrderTypeEnum.  Amounts and prices are
\* positive where present.
AnyStoredConfigs ==
    ConfigsOver({"binance"}, OrderTypes \cup {"iceberg"}, PositionSides,
                OptOf({2}), OptOf({10}), OptOf({30}))

AlertsOver(users, prices) ==
    [user_id : users, config_name : ConfigNames, price : prices]

\* The webhook payloads of Spec and of SpecPipe.
Alerts == AlertsOver({AdminUser}, {None})
PipeAlerts == AlertsOver(UserIds, OptOf({0, -20, 25}))

\* fetch_balance(): raises, or a mapping currency -> free amount.
BalanceResponses ==
    {[ok |-> FALSE, free |-> [c \in Currencies |-> None]]} \cup
    {[ok |-> TRUE, free |-> f] :
        f \in {g \in [Currencies -> OptOf({0, 3, 1000})] :
                 /\ g["BTC"] = Some(3)
                 /\ g["USDT"] \in {None, Some(0), Some(1000)}}}

\* fetch_ticker(symbol): raises, or a ticker with a 'last' price.
TickerResponses ==
    {[ok |-> FALSE, last |-> 0], [ok |-> TRUE, last |-> 0],
     [ok |-> TRUE, last |-> 50]}

CacheKeys == UserIds \X Exchanges
ConfigKeys == UserIds \X ConfigNames

\* ------------------------------------------------------------- database.py
\* Fernet encryption of a stored secret, and its inverse.
encrypt_data(data) == <<"fernet", data>>

decrypt_data(data) == data[2]

\* {} when the key is absent, else the decrypted pair (only api_key is kept).
get_exchange_api_key(user_id, exchange) ==
    LET data == vault[<<user_id, exchange>>]
    IN  IF data = None THEN None ELSE Some(decrypt_data(data[1]))

get_alert_config(user_id, config_name) == configs[<<user_id, config_name>>]

UserHistory(user_id) == {h \in history : h.user = user_id}

\* redis SET of alert:{user_id}:{timestamp}: a record under the same key is
\* replaced.  ok = FALSE: the Redis call raises and nothing is stored.
save_alert_history_swallow(hist, user_id, alert_data, ok) ==
    [raised |-> FALSE,
     history |-> IF ok
                 THEN {h \in hist : ~(h.user = user_id /\ h.ts = alert_data.timestamp)}
                      \cup {[user |-> user_id, ts |-> alert_data.timestamp,
                             data |-> alert_data]}
                 ELSE hist]

save_alert_history(hist, user_id, alert_data, ok) ==
    [raised |-> ~ok,
     history |-> IF ok
                 THEN {h \in hist : ~(h.user = user_id /\ h.ts = alert_data.timestamp)}
                      \cup {[user |-> user_id, ts |-> alert_data.timestamp,
                             data |-> alert_data]}
                 ELSE hist]

\* ------------------------------------------------------------- main.py
\* get_exchange_client (main.py 45-70): status 200 with the client, or the
\* HTTPException it raises.  constructOk = FALSE: the ccxt constructor raises.
get_exchange_client_no_cache_check(cache, user_id, exchange_name, constructOk, serial) ==
    LET key == <<user_id, exchange_name>>
        credentials == get_exchange_api_key(user_id, exchange_name)
    IN  IF credentials = None
        THEN [status |-> 404, detail |-> "API keys not found",
              client |-> None, cache |-> cache, constructed |-> FALSE,
              calls |-> <<Call("get_exchange_api_key", TRUE)>>]
        ELSE IF ~constructOk
        THEN [status |-> 500, detail |-> "Error creating exchange client",
              client |-> None, cache |-> cache, constructed |-> FALSE,
              calls |-> <<Call("get_exchange_api_key", TRUE),
                          Call("construct", FALSE)>>]
        ELSE LET client == [user |-> user_id, exchange |-> exchange_name,
                            apiKey |-> credentials[1], serial |-> serial]
             IN  [status |-> 200, detail |-> "", client |-> Some(client),
                  cache |-> [cache EXCEPT ![key] = Some(client)],
                  constructed |-> TRUE,
                  calls |-> <<Call("get_exchange_api_key", TRUE),
                              Call("construct", TRUE)>>]

get_exchange_client_recheck_credentials(cache, user_id, exchange_name, constructOk, serial) ==
    LET key == <<user_id, exchange_name>>
        credentials == get_exchange_api_key(user_id, exchange_name)
    IN  IF cache[key] # None /\ credentials = Some(cache[key][1].apiKey)
        THEN [status |-> 200, detail |-> "", client |-> cache[key],
              cache |-> cache, constructed |-> FALSE, calls |-> <<>>]
        ELSE IF credentials = None
        THEN [status |-> 404, detail |-> "API keys not found",
              client |-> None, cache |-> [cache EXCEPT ![key] = None],
              constructed |-> FALSE,
              calls |-> <<Call("get_exchange_api_key", TRUE)>>]
        ELSE IF ~constructOk
        THEN [status |-> 500, detail |-> "Error creating exchange client",
              client |-> None, cache |-> cache, constructed |-> FALSE,
              calls |-> <<Call("get_exchange_api_key", TRUE),
                          Call("construct", FALSE)>>]
        ELSE LET client == [user |-> user_id, exchange |-> exchange_name,
                            apiKey |-> credentials[1], serial |-> serial]
             IN  [status |-> 200, detail |-> "", client |-> Some(client),
                  cache |-> [cache EXCEPT ![key] = Some(client)],
                  constructed |-> TRUE,
                  calls |-> <<Call("get_exchange_api_key", TRUE),
                              Call("construct", TRUE)>>]

get_exchange_client(cache, user_id, exchange_name, constructOk, serial) ==
    LET key == <<user_id, exchange_name>>
        credentials == get_exchange_api_key(user_id, exchange_name)
    IN  IF cache[key] # None
        THEN [status |-> 200, detail |-> "", client |-> cache[key],
              cache |-> cache, constructed |-> FALSE, calls |-> <<>>]
        ELSE IF credentials = None
        THEN [status |-> 404, detail |-> "API keys not found",
              client |-> None, cache |-> cache, constructed |-> FALSE,
              calls |-> <<Call("get_exchange_api_key", TRUE)>>]
        ELSE IF ~constructOk
        THEN [status |-> 500, detail |-> "Error creating exchange client",
              client |-> None, cache |-> cache, constructed |-> FALSE,
              calls |-> <<Call("get_exchange_api_key", TRUE),
                          Call("construct", FALSE)>>]
        ELSE LET client == [user |-> user_id, exchange |-> exchange_name,
                            apiKey |-> credentials[1], serial |-> serial]
             IN  [status |-> 200, detail |-> "", client |-> Some(client),
                  cache |-> [cache EXCEPT ![key] = Some(client)],
                  constructed |-> TRUE,
                  calls |-> <<Call("get_exchange_api_key", TRUE),
                              Call("construct", TRUE)>>]

\* side = "buy" if config["position_side"] == "long" else "sell"
Side_inverted(config) == IF config.position_side = "long" THEN "sell" ELSE "buy"

Side(config) == IF config.position_side = "long" THEN "buy" ELSE "sell"

\* Which branch of "Determine quantity" runs (main.py 179-181).
QuantityPath_percentage_first(config) ==
    IF Truthy(config.quantity_percentage) THEN "percentage"
    ELSE IF Truthy(config.quantity) THEN "fixed"
    ELSE "none"

QuantityPath(config) ==
    IF Truthy(config.quantity) THEN "fixed"
    ELSE IF Truthy(config.quantity_percentage) THEN "percentage"
    ELSE "none"

\* base_currency = symbol.split("/")[1]
QuoteCurrency_first_component(symbol) == symbol[1]

QuoteCurrency(symbol) == symbol[2]

\* current_price = alert.price if alert.price else fetch_ticker(...)['last']
NeedsTicker_always(alert) == TRUE

NeedsTicker(alert) == ~Truthy(alert.price)

\* quantity = (available * config["quantity_percentage"] / 100) / current_price
PercentageQuantity(available, percentage, current_price) ==
    Rat(available * percentage, 100 * current_price)

\* `if not quantity`
QuantityMissing(quantity) == quantity = None \/ quantity[1].n = 0

\* The create_order request of main.py 200-235, or the HTTPException raised
\* before it; "none" when no branch matches the order type.
OrderRequest_no_price_check(config, alert, side, quantity) ==
    LET price == IF Truthy(alert.price) THEN alert.price ELSE config.price
        t == config.order_type
    IN  IF t = "market"
        THEN [kind |-> "order", detail |-> "",
              request |-> [symbol |-> config.symbol, type |-> "market",
                           side |-> side, amount |-> quantity,
                           price |-> None, stopPrice |-> None]]
        ELSE [kind |-> "order", detail |-> "",
              request |-> [symbol |-> config.symbol,
                           type |-> IF t = "limit" THEN "limit" ELSE "stop",
                           side |-> side, amount |-> quantity,
                           price |-> price,
                           stopPrice |-> IF t = "limit" THEN None ELSE price]]

OrderRequest_config_price_first(config, alert, side, quantity) ==
    LET price == IF Truthy(config.price) THEN config.price ELSE alert.price
        t == config.order_type
        NoRequest == [symbol |-> config.symbol, type |-> "", side |-> side,
                      amount |-> quantity, price |-> None, stopPrice |-> None]
    IN  IF t = "market"
        THEN [kind |-> "order", detail |-> "",
              request |-> [symbol |-> config.symbol, type |-> "market",
                           side |-> side, amount |-> quantity,
                           price |-> None, stopPrice |-> None]]
        ELSE IF t = "limit"
        THEN IF ~Truthy(price)
             THEN [kind |-> "http", detail |-> "Price required",
                   request |-> NoRequest]
             ELSE [kind |-> "order", detail |-> "",
                   request |-> [symbol |-> config.symbol, type |-> "limit",
                                side |-> side, amount |-> quantity,
                                price |-> price, stopPrice |-> None]]
        ELSE IF t \in {"stop_loss", "take_profit"}
        THEN IF ~Truthy(price)
             THEN [kind |-> "http", detail |-> "Price required",
                   request |-> NoRequest]
             ELSE [kind |-> "order", detail |-> "",
                   request |-> [symbol |-> config.symbol, type |-> "stop",
                                side |-> side, amount |-> quantity,
                                price |-> price, stopPrice |-> price]]
        ELSE [kind |-> "none", detail |-> "", request |-> NoRequest]

OrderRequest(config, alert, side, quantity) ==
    LET price == IF Truthy(alert.price) THEN alert.price ELSE config.price
        t == config.order_type
        NoRequest == [symbol |-> config.symbol, type |-> "", side |-> side,
                      amount |-> quantity, price |-> None, stopPrice |-> None]
    IN  IF t = "market"
        THEN [kind |-> "order", detail |-> "",
              request |-> [symbol |-> config.symbol, type |-> "market",
                           side |-> side, amount |-> quantity,
                           price |-> None, stopPrice |-> None]]
        ELSE IF t = "limit"
        THEN IF ~Truthy(price)
             THEN [kind |-> "http", detail |-> "Price required",
                   request |-> NoRequest]
             ELSE [kind |-> "order", detail |-> "",
                   request |-> [symbol |-> config.symbol, type |-> "limit",
                                side |-> side, amount |-> quantity,
                                price |-> price, stopPrice |-> None]]
        ELSE IF t \in {"stop_loss", "take_profit"}
        THEN IF ~Truthy(price)
             THEN [kind |-> "http", detail |-> "Price required",
                   request |-> NoRequest]
             ELSE [kind |-> "order", detail |-> "",
                   request |-> [symbol |-> config.symbol, type |-> "stop",
                                side |-> side, amount |-> quantity,
                                price |-> price, stopPrice |-> price]]
        ELSE [kind |-> "none", detail |-> "", request |-> NoRequest]

\* ------------------------------------------------------------- invocation
NoInvocation ==
    [pc |-> "idle", alert |-> None, config |-> None, client |-> None,
     quantity |-> None, balance |-> None, available |-> None,
     request |-> None,
     order_id |-> None, calls |-> <<>>, outcome |-> "none", status |-> 0,
     detail |-> "", result |-> None, histBefore |-> 0, ordersBefore |-> 0]

Idle == inv.pc \in {"idle", "done"}

\* What is remembered of a finished invocation once the next one starts.
Summary(i) ==
    [alert |-> i.alert, outcome |-> i.outcome, result |-> i.result,
     histBefore |-> i.histBefore, ordersBefore |-> i.ordersBefore]

Alert == inv.alert[1]
Config == inv.config[1]

\* raise HTTPException(...): `except HTTPException: raise` passes it on.
RaiseHTTP(i, code, detail) ==
    [i EXCEPT !.pc = "done", !.outcome = "http", !.status = code,
              !.detail = detail]

\* Any other exception: control moves to `except Exception as e`.
RaiseError(i, what) == [i EXCEPT !.pc = "except", !.detail = what]

\* OrderResultModel(...)
OrderResultModel(success, order_id, message, timestamp) ==
    [success |-> success, order_id |-> order_id, message |-> message,
     timestamp |-> timestamp]

Return(i, result) ==
    [i EXCEPT !.pc = "done", !.outcome = "returned", !.status = 200,
              !.result = Some(result)]

\* ------------------------------------------------------------- admin endpoints
add_api_key(exchange, api_key) ==
    /\ Idle
    /\ vault' = [vault EXCEPT ![<<AdminUser, exchange>>] =
                                    Some(encrypt_data(api_key))]
    /\ UNCHANGED <<configs, history, exchange_clients, built, orders, written,
                   now, inv, prev, nAlerts>>

remove_api_key(exchange) ==
    /\ Idle
    /\ vault' = [vault EXCEPT ![<<AdminUser, exchange>>] = None]
    /\ UNCHANGED <<configs, history, exchange_clients, built, orders, written,
                   now, inv, prev, nAlerts>>

create_alert_config(name, config) ==
    /\ Idle
    /\ configs' = [configs EXCEPT ![<<AdminUser, name>>] = Some(config)]
    /\ UNCHANGED <<vault, history, exchange_clients, built, orders, written,
                   now, inv, prev, nAlerts>>

remove_config(name) ==
    /\ Idle
    /\ configs' = [configs EXCEPT ![<<AdminUser, name>>] = None]
    /\ UNCHANGED <<vault, history, exchange_clients, built, orders, written,
                   now, inv, prev, nAlerts>>

\* ------------------------------------------------------------- webhook
\* main.py 159-165: the handler starts and reads the configuration.
Lookup(alert, bound) ==
    /\ Idle
    /\ nAlerts < bound
    /\ nAlerts' = nAlerts + 1
    /\ prev' = IF inv.pc = "done" THEN Some(Summary(inv)) ELSE None
    /\ LET config == get_alert_config(alert.user_id, alert.config_name)
           i == [NoInvocation EXCEPT
                    !.alert = Some(alert), !.config = config,
                    !.calls = <<Call("get_alert_config", TRUE)>>,
                    !.histBefore = Cardinality(UserHistory(alert.user_id)),
                    !.ordersBefore = Len(orders)]
       IN  inv' = IF config = None
                  THEN RaiseHTTP(i, 404, "Configuration not found")
                  ELSE [i EXCEPT !.pc = "client"]
    /\ UNCHANGED <<vault, configs, history, exchange_clients, built, orders,
                   written, now>>

\* main.py 168
AcquireClient ==
    /\ inv.pc = "client"
    /\ \E constructOk \in BOOLEAN :
         LET key == <<Alert.user_id, Config.exchange>>
             r == get_exchange_client(exchange_clients, Alert.user_id,
                                      Config.exchange, constructOk,
                                      built[key] + 1)
             i == [inv EXCEPT !.calls = @ \o r.calls, !.client = r.client]
         IN  /\ exchange_clients' = r.cache
             /\ built' = IF r.constructed
                         THEN [built EXCEPT ![key] = @ + 1] ELSE built
             /\ inv' = IF r.status # 200
                       THEN RaiseHTTP(i, r.status, r.detail)
                       ELSE [i EXCEPT !.pc = "quantity"]
    /\ UNCHANGED <<vault, configs, history, orders, written, now, prev, nAlerts>>

\* main.py 177-181: fixed quantity, percentage of the balance, or neither.
DetermineQuantity ==
    /\ inv.pc = "quantity"
    /\ LET path == QuantityPath(Config)
       IN  inv' = IF path = "fixed"
                  THEN [inv EXCEPT !.quantity = Some(Rat(Config.quantity[1], 1)),
                                   !.pc = "check"]
                  ELSE IF path = "percentage"
                  THEN [inv EXCEPT !.pc = "balance"]
                  ELSE [inv EXCEPT !.pc = "check"]
    /\ UNCHANGED <<vault, configs, history, exchange_clients, built, orders,
                   written, now, prev, nAlerts>>

\* main.py 183-192, up to the choice of the current price.
FetchBalance ==
    /\ inv.pc = "balance"
    /\ \E balance \in BalanceResponses :
         LET i == [inv EXCEPT !.calls = Append(@, Call("fetch_balance", balance.ok)),
                              !.balance = IF balance.ok THEN Some(balance.free)
                                          ELSE None]
             base_currency == QuoteCurrency(Config.symbol)
         IN  inv' =
               IF ~balance.ok THEN RaiseError(i, "fetch_balance failed")
               ELSE IF Len(Config.symbol) < 2 THEN RaiseError(i, "IndexError")
               ELSE IF balance.free[base_currency] = None
               THEN RaiseHTTP(i, 400, "No balance found")
               ELSE LET available == balance.free[base_currency][1]
                    IN  IF NeedsTicker(Alert)
                        THEN [i EXCEPT !.available = Some(available),
                                       !.pc = "ticker"]
                        ELSE [i EXCEPT
                                !.available = Some(available),
                                !.quantity = Some(PercentageQuantity(
                                    available, Config.quantity_percentage[1],
                                    Alert.price[1])),
                                !.pc = "check"]
    /\ UNCHANGED <<vault, configs, history, exchange_clients, built, orders,
                   written, now, prev, nAlerts>>

\* main.py 190-192 when the alert carries no price.
FetchTicker ==
    /\ inv.pc = "ticker"
    /\ \E ticker \in TickerResponses :
         LET i == [inv EXCEPT !.calls = Append(@, Call("fetch_ticker", ticker.ok))]
         IN  inv' =
               IF ~ticker.ok THEN RaiseError(i, "fetch_ticker failed")
               ELSE IF ticker.last = 0 THEN RaiseError(i, "ZeroDivisionError")
               ELSE [i EXCEPT
                       !.quantity = Some(PercentageQuantity(
                           inv.available[1], Config.quantity_percentage[1],
                           ticker.last)),
                       !.pc = "check"]
    /\ UNCHANGED <<vault, configs, history, exchange_clients, built, orders,
                   written, now, prev, nAlerts>>

\* main.py 194-195
CheckQuantity ==
    /\ inv.pc = "check"
    /\ inv' = IF QuantityMissing(inv.quantity)
              THEN RaiseHTTP(inv, 400, "Could not determine order quantity")
              ELSE [inv EXCEPT !.pc = "dispatch"]
    /\ UNCHANGED <<vault, configs, history, exchange_clients, built, orders,
                   written, now, prev, nAlerts>>

\* main.py 197-235: create_order, unless the price check raises first.
Dispatch ==
    /\ inv.pc = "dispatch"
    /\ LET r == OrderRequest(Config, Alert, Side(Config), inv.quantity[1])
       IN  IF r.kind = "http"
           THEN /\ inv' = RaiseHTTP(inv, 400, r.detail)
                /\ UNCHANGED orders
           ELSE IF r.kind = "none"
           THEN /\ inv' = [inv EXCEPT !.pc = "save"]
                /\ UNCHANGED orders
           ELSE \E orderOk \in BOOLEAN :
                  LET i == [inv EXCEPT !.calls = Append(@, Call("create_order", orderOk)),
                                       !.request = Some(r.request)]
                      id == Len(orders) + 1
                  IN  IF orderOk
                      THEN /\ orders' = Append(orders,
                                  [id |-> id, client |-> inv.client[1],
                                   request |-> r.request])
                           /\ inv' = [i EXCEPT !.order_id = Some(id),
                                               !.pc = "save"]
                      ELSE /\ inv' = RaiseError(i, "create_order failed")
                           /\ UNCHANGED orders
    /\ UNCHANGED <<vault, configs, history, exchange_clients, built, written,
                   now, prev, nAlerts>>

\* main.py 237-260
SaveSuccess ==
    /\ inv.pc = "save"
    /\ \E dt \in {0, 1}, saveOk \in BOOLEAN :
         LET timestamp == now + dt
             result == OrderResultModel(TRUE, inv.order_id,
                                        "Order executed successfully", timestamp)
             history_data ==
                 [config_name |-> Alert.config_name, symbol |-> Config.symbol,
                  side |-> Side(Config), quantity |-> inv.quantity[1],
                  price |-> Alert.price, timestamp |-> timestamp,
                  success |-> TRUE, order_id |-> result.order_id]
             w == save_alert_history(history, Alert.user_id, history_data, saveOk)
             i == [inv EXCEPT !.calls = Append(@, Call("save_alert_history", saveOk))]
         IN  /\ now' = timestamp
             /\ history' = w.history
             /\ written' = IF saveOk
                           THEN [written EXCEPT ![Alert.user_id] = @ + 1]
                           ELSE written
             /\ inv' = IF w.raised
                       THEN RaiseError(i, "save_alert_history failed")
                       ELSE Return(i, result)
    /\ UNCHANGED <<vault, configs, exchange_clients, built, orders, prev, nAlerts>>

\* main.py 263-279
HandleException ==
    /\ inv.pc = "except"
    /\ \E dt \in {0, 1}, saveOk \in BOOLEAN :
         LET timestamp == now + dt
             error_result == OrderResultModel(FALSE, None, inv.detail, timestamp)
             history_data ==
                 [config_name |-> Alert.config_name, timestamp |-> timestamp,
                  success |-> FALSE, message |-> error_result.message]
             w == save_alert_history(history, Alert.user_id, history_data, saveOk)
             i == [inv EXCEPT !.calls = Append(@, Call("save_alert_history", saveOk))]
         IN  /\ now' = timestamp
             /\ history' = w.history
             /\ written' = IF saveOk
                           THEN [written EXCEPT ![Alert.user_id] = @ + 1]
                           ELSE written
             /\ inv' = IF w.raised
                       THEN [i EXCEPT !.pc = "done", !.outcome = "error",
                                      !.status = 500,
                                      !.detail = "save_alert_history failed"]
                       ELSE Return(i, error_result)
    /\ UNCHANGED <<vault, configs, exchange_clients, built, orders, prev, nAlerts>>

Pipeline ==
    \/ AcquireClient
    \/ DetermineQuantity
    \/ FetchBalance
    \/ FetchTicker
    \/ CheckQuantity
    \/ Dispatch
    \/ SaveSuccess
    \/ HandleException

\* ------------------------------------------------------------- specifications
EmptyState ==
    /\ history = {}
    /\ exchange_clients = [k \in CacheKeys |-> None]
    /\ built = [k \in CacheKeys |-> 0]
    /\ orders = <<>>
    /\ written = [u \in UserIds |-> 0]
    /\ now = 0
    /\ inv = NoInvocation
    /\ prev = None
    /\ nAlerts = 0

\* A fresh process over empty Redis stores.
Init ==
    /\ vault = [k \in CacheKeys |-> None]
    /\ configs = [k \in ConfigKeys |-> None]
    /\ EmptyState

Next ==
    \/ \E e \in Exchanges, k \in ApiKeys : add_api_key(e, k)
    \/ \E e \in Exchanges : remove_api_key(e)
    \/ \E n \in StoredNames, c \in AdminConfigs : create_alert_config(n, c)
    \/ \E n \in StoredNames : remove_config(n)
    \/ \E a \in Alerts : Lookup(a, MaxAlerts)
    \/ Pipeline

Spec == Init /\ [][Next]_vars

\* A fresh process over Redis stores that already hold one configuration
\* "c1" of the admin user and possibly the key pair of its exchange.
InitPipe ==
    /\ \E k \in OptOf({encrypt_data("k1")}) :
         vault = [x \in CacheKeys |->
                    IF x = <<AdminUser, "binance">> THEN k ELSE None]
    /\ \E c \in StoredConfigs :
         configs = [x \in ConfigKeys |->
                      IF x = <<AdminUser, "c1">> THEN Some(c) ELSE None]
    /\ EmptyState

NextPipe ==
    \/ \E a \in PipeAlerts : Lookup(a, MaxPipeAlerts)
    \/ Pipeline

SpecPipe == InitPipe /\ [][NextPipe]_vars

\* A fresh process over Redis stores that hold the fixed-quantity market
\* configurations "c1" (binance) and "c2" (bybit) and no key pair: key
\* pairs come and go while alerts are processed.  (Fixed-quantity
\* invocations never fetch a balance or a ticker.)
InitCache ==
    /\ vault = [k \in CacheKeys |-> None]
    /\ configs = [x \in ConfigKeys |->
                    IF x = <<AdminUser, "c1">> THEN Some(CacheConfig("binance"))
                    ELSE IF x = <<AdminUser, "c2">> THEN Some(CacheConfig("bybit"))
                    ELSE None]
    /\ EmptyState

NextCache ==
    \/ \E e \in Exchanges, k \in ApiKeys : add_api_key(e, k)
    \/ \E e \in Exchanges : remove_api_key(e)
    \/ \E a \in Alerts : Lookup(a, MaxAlerts)
    \/ AcquireClient
    \/ DetermineQuantity
    \/ CheckQuantity
    \/ Dispatch
    \/ SaveSuccess
    \/ HandleException

SpecCache == InitCache /\ [][NextCache]_vars

\* A fresh process over Redis stores whose configuration "c1" is any JSON
\* record of the configuration shape, validated by the API or not.
InitStore ==
    /\ \E k \in OptOf({encrypt_data("k1")}) :
         vault = [x \in CacheKeys |->
                    IF x = <<AdminUser, "binance">> THEN k ELSE None]
    /\ \E c \in AnyStoredConfigs :
         configs = [x \in ConfigKeys |->
                      IF x = <<AdminUser, "c1">> THEN Some(c) ELSE None]
    /\ EmptyState

SpecStore == InitStore /\ [][NextPipe]_vars

\* ------------------------------------------------------------- properties
Done == inv.pc = "done"

Called(op) == \E k \in DOMAIN inv.calls : inv.calls[k].op = op

CallCount(op) == Cardinality({k \in DOMAIN inv.calls : inv.calls[k].op = op})

\* Some call of this invocation to op returned (ok) or raised (~ok).
CallEnded(op, ok) ==
    \E k \in DOMAIN inv.calls : inv.calls[k].op = op /\ inv.calls[k].ok = ok

ReturnedSuccess ==
    inv.outcome = "returned" /\ inv.result # None /\ inv.result[1].success

ReturnedFailure ==
    inv.outcome = "returned" /\ inv.result # None /\ ~inv.result[1].success

\* A failure record of this invocation is in the History Store.
FailureRecorded ==
    /\ CallEnded("save_alert_history", TRUE)
    /\ \E h \in UserHistory(Alert.user_id) :
         /\ h.ts = now
         /\ ~h.data.success
         /\ h.data.config_name = Alert.config_name
         /\ h.data.message = inv.detail

\* C1: every finished invocation ended by returning an OrderResult, never by
\* raising an exception past process_tradingview_alert.
C1_NeverRaises == Done => inv.outcome = "returned"

\* C2: an alert whose (user_id, config_name) has no stored configuration ends
\* with a returned success=false result and a failure history record of it,
\* without acquiring an exchange client and without placing an order.
C2_MissingConfigRecorded ==
    (Done /\ inv.config = None) =>
        /\ ReturnedFailure
        /\ FailureRecorded
        /\ CallCount("save_alert_history") = 1
        /\ ~Called("get_exchange_api_key")
        /\ inv.client = None
        /\ Len(orders) = inv.ordersBefore

\* C3: an invocation that found its configuration, failed in client
\* acquisition, quantity resolution or dispatch, and whose History Store
\* accepted every write, has written a failure history record.
C3_FailureRecorded ==
    (/\ Done
     /\ inv.config # None
     /\ ~ReturnedSuccess
     /\ ~CallEnded("save_alert_history", FALSE)) => FailureRecorded

\* C4: once create_order has succeeded and the history write after it has
\* raised, the invocation never returns success=true, the order stays on the
\* exchange and it is the only order the invocation placed.
SuccessWriteFailed ==
    \E k \in DOMAIN inv.calls :
        /\ inv.calls[k] = Call("save_alert_history", FALSE)
        /\ \A j \in 1..(k - 1) : inv.calls[j].op # "save_alert_history"

C4_PartialFailureSurfaced ==
    (CallEnded("create_order", TRUE) /\ SuccessWriteFailed) =>
        /\ ~ReturnedSuccess
        /\ Done => (ReturnedFailure \/ inv.outcome = "error")
        /\ CallCount("create_order") = 1
        /\ Len(orders) = inv.ordersBefore + 1
        /\ orders[Len(orders)].id = inv.order_id[1]

C4_Witness ==
    /\ Done
    /\ CallEnded("create_order", TRUE)
    /\ SuccessWriteFailed
    /\ ReturnedFailure

\* C5: two identical alerts of one user processed back to back, both
\* returning success, leave two more orders and two more history records
\* than before the first, whatever the timestamps.
C5_TwoRecords ==
    (/\ Done
     /\ ReturnedSuccess
     /\ prev # None
     /\ prev[1].alert = inv.alert
     /\ prev[1].outcome = "returned"
     /\ prev[1].result[1].success) =>
        /\ Len(orders) = prev[1].ordersBefore + 2
        /\ Cardinality(UserHistory(Alert.user_id)) = prev[1].histBefore + 2

\* C6: at most one client is ever constructed per (user_id, exchange) key, a
\* key is cached exactly when its client was constructed, and every client
\* an invocation obtained or placed an order with is the cached one.
C6_AtMostOneClient ==
    /\ \A key \in CacheKeys :
         /\ built[key] <= 1
         /\ (exchange_clients[key] = None) <=> (built[key] = 0)
    /\ inv.client # None =>
         inv.client = exchange_clients[<<Alert.user_id, Config.exchange>>]
    /\ \A k \in DOMAIN orders :
         Some(orders[k].client) =
            exchange_clients[<<orders[k].client.user, orders[k].client.exchange>>]

C6_Witness ==
    /\ Done
    /\ Len(orders) = 2
    /\ orders[1].client = orders[2].client
    /\ ~Called("construct")

\* C7: with config.quantity set and positive (quantity_percentage set or
\* not) the invocation calls neither fetch_balance nor fetch_ticker and the
\* amount it sends to create_order is exactly config.quantity.
FixedPositive ==
    inv.config # None /\ Config.quantity # None /\ Config.quantity[1] > 0

C7_FixedQuantityUsed ==
    FixedPositive =>
        /\ ~Called("fetch_balance")
        /\ ~Called("fetch_ticker")
        /\ inv.request # None =>
             inv.request[1].amount = [n |-> Config.quantity[1], d |-> 1]
        /\ Done /\ inv.order_id # None =>
             orders[Len(orders)].request.amount = [n |-> Config.quantity[1], d |-> 1]

C7_Witness ==
    /\ Done
    /\ FixedPositive
    /\ Truthy(Config.quantity_percentage)
    /\ inv.order_id # None
    /\ ReturnedSuccess

\* C8 as stated, for the invocations that reach quantity resolution with a
\* positive percentage and an alert price that is absent or positive: with
\* only quantity_percentage set, a finished invocation has called
\* fetch_balance once, and fetch_ticker once unless the alert carries a
\* price, then not at all.
OnlyPercentage ==
    inv.config # None /\ Config.quantity = None
        /\ Config.quantity_percentage # None

C9_PositiveAmounts ==
    /\ inv.request # None => inv.request[1].amount.n > 0
    /\ \A k \in DOMAIN orders : orders[k].request.amount.n > 0
    /\ (Done /\ inv.quantity # None /\ inv.quantity[1].n <= 0) =>
         /\ inv.outcome = "http"
         /\ inv.detail = "Could not determine order quantity"
         /\ Len(orders) = inv.ordersBefore

\* C10: an invocation that resolved a quantity and whose order type is
\* market calls create_order whatever the prices are; with order type limit,
\* stop_loss or take_profit and no price in the alert or the configuration
\* create_order is never called and such an invocation ends with "Price
\* required".
QuantityResolved == inv.quantity # None /\ inv.quantity[1].n # 0

NoPriceAnywhere == Alert.price = None /\ Config.price = None

C10_PriceRequirement ==
    inv.config # None =>
        /\ (Done /\ QuantityResolved /\ Config.order_type = "market") =>
             Called("create_order")
        /\ (Config.order_type \in {"limit", "stop_loss", "take_profit"}
              /\ NoPriceAnywhere) =>
             /\ ~Called("create_order")
             /\ inv.request = None
             /\ Len(orders) = inv.ordersBefore
             /\ (Done /\ QuantityResolved) =>
                  /\ inv.outcome = "http"
                  /\ inv.status = 400
                  /\ inv.detail = "Price required"

C10_Witness ==
    /\ Done
    /\ QuantityResolved
    /\ Config.order_type = "stop_loss"
    /\ NoPriceAnywhere
    /\ inv.detail = "Price required"

C10_WitnessMarket ==
    /\ Done
    /\ inv.config # None
    /\ Config.order_type = "market"
    /\ NoPriceAnywhere
    /\ inv.order_id # None

\* C11: an invocation whose stored configuration has an order type outside
\* {market, limit, stop_loss, take_profit} never returns success=true, and
\* no success history record is written for it without an order placed.
UnsupportedType == inv.config # None /\ Config.order_type \notin OrderTypes

ExpectedSide ==
    CASE Config.position_side = "long" -> "buy"
      [] Config.position_side = "short" -> "sell"

C12_SideDerivation ==
    /\ inv.request # None => inv.request[1].side = ExpectedSide
    /\ (Done /\ inv.order_id # None) =>
         orders[Len(orders)].request.side = ExpectedSide
    /\ (Done /\ ReturnedSuccess) =>
         \E h \in UserHistory(Alert.user_id) :
            /\ h.ts = inv.result[1].timestamp
            /\ h.data.success
            /\ h.data.order_id = inv.order_id
            /\ h.data.side = ExpectedSide

C12_Witness ==
    /\ Done
    /\ ReturnedSuccess
    /\ Config.position_side = "short"
    /\ inv.order_id # None
    /\ orders[Len(orders)].request.side = "sell"
    /\ \E h \in UserHistory(Alert.user_id) :
          h.data.success /\ h.data.side = "sell"

\* The row of the mapping table for the configured order type, with `price`
\* the price the claim says is used.
MatchesTable(req, price) ==
    /\ req.symbol = Config.symbol
    /\ req.amount = inv.quantity[1]
    /\ CASE Config.order_type = "market" ->
              req.type = "market" /\ req.price = None /\ req.stopPrice = None
         [] Config.order_type = "limit" ->
              req.type = "limit" /\ req.price = price /\ req.price # None
                                 /\ req.stopPrice = None
         [] Config.order_type \in {"stop_loss", "take_profit"} ->
              req.type = "stop" /\ req.price = price /\ req.price # None
                                /\ req.stopPrice = req.price
         [] OTHER -> FALSE

\* C13 as stated: every create_order request matches the mapping table, the
\* price being the alert's price whenever the alert carries one, otherwise
\* the configuration's.
C13_Original ==
    (inv.request # None /\ inv.quantity[1].n > 0) =>
        MatchesTable(inv.request[1],
                     IF Alert.price # None THEN Alert.price ELSE Config.price)

\* C13: every create_order request matches the mapping table (market: no
\* price, no stopPrice; limit: price; stop_loss and take_profit: kind stop,
\* price and stopPrice equal to it), the price being the alert's price when
\* the alert carries a non-zero one, otherwise the configuration's; an order
\* placed is placed with exactly that request.
C13_MappingTable ==
    /\ inv.request # None =>
         MatchesTable(inv.request[1],
                      IF Alert.price # None /\ Alert.price[1] # 0
                      THEN Alert.price ELSE Config.price)
    /\ inv.order_id # None =>
         orders[inv.order_id[1]].request = inv.request[1]

C13_Witness ==
    /\ Done
    /\ inv.order_id # None
    /\ Config.order_type = "stop_loss"
    /\ Alert.price = Some(25)
    /\ Config.price = Some(30)
    /\ orders[inv.order_id[1]].request.type = "stop"
    /\ orders[inv.order_id[1]].request.price = Some(25)
    /\ orders[inv.order_id[1]].request.stopPrice = Some(25)

\* The alert carries price 0 and the configuration's price is the one sent.
C13_WitnessZeroPrice ==
    /\ Done
    /\ inv.order_id # None
    /\ Config.order_type = "limit"
    /\ Alert.price = Some(0)
    /\ orders[inv.order_id[1]].request.price = Some(30)

\* C14: the balance used on the percentage path is the fetch_balance entry
\* of the second component of the symbol; when the response has no entry for
\* it the invocation ends with the 400 "No balance found" error, has no
\* quantity, made no fetch_ticker call and placed no order.
C14_QuoteBalance ==
    /\ inv.available # None =>
         /\ inv.balance # None
         /\ inv.balance[1][Config.symbol[2]] = inv.available
    /\ (inv.balance # None /\ inv.balance[1][Config.symbol[2]] = None) =>
         /\ Done
         /\ inv.outcome = "http"
         /\ inv.status = 400
         /\ inv.detail = "No balance found"
         /\ inv.available = None
         /\ inv.quantity = None
         /\ ~Called("fetch_ticker")
         /\ ~Called("create_order")
         /\ Len(orders) = inv.ordersBefore

C14_Witness ==
    /\ Done
    /\ CallEnded("fetch_balance", TRUE)
    /\ inv.balance # None
    /\ inv.balance[1]["USDT"] = None
    /\ inv.balance[1]["BTC"] # None
    /\ inv.detail = "No balance found"

\* The quote currency is in the response and its balance sizes the order.
C14_WitnessPresent ==
    /\ Done
    /\ inv.order_id # None
    /\ inv.balance # None
    /\ inv.available = Some(1000)
    /\ inv.balance[1]["USDT"] = Some(1000)
    /\ inv.balance[1]["BTC"] = Some(3)

\* Position of a call in the pipeline order: configuration read, client
\* acquisition (key lookup, then construction), balance, ticker, order,
\* history write.
Rank(op) ==
    CASE op = "get_alert_config" -> 1
      [] op = "get_exchange_api_key" -> 2
      [] op = "construct" -> 3
      [] op = "fetch_balance" -> 4
      [] op = "fetch_ticker" -> 5
      [] op = "create_order" -> 6
      [] op = "save_alert_history" -> 7

CacheStep ==
    /\ \A key \in CacheKeys :
         /\ exchange_clients[key] # None =>
              exchange_clients'[key] = exchange_clients[key]
         /\ (exchange_clients[key] = None /\ exchange_clients'[key] # None) =>
              /\ inv.pc = "client"
              /\ key = <<Alert.user_id, Config.exchange>>
              /\ inv'.calls[Len(inv'.calls)] = Call("construct", TRUE)
              /\ built'[key] = built[key] + 1
              /\ inv'.client = exchange_clients'[key]
              /\ get_exchange_api_key(key[1], key[2]) =
                     Some(exchange_clients'[key][1].apiKey)
    /\ (inv.pc = "client" /\ inv'.outcome = "http") =>
         /\ exchange_clients' = exchange_clients
         /\ inv'.client = None
    /\ (inv.pc = "client"
        /\ exchange_clients[<<Alert.user_id, Config.exchange>>] # None) =>
         /\ inv'.pc = "quantity"
         /\ inv'.client = exchange_clients[<<Alert.user_id, Config.exchange>>]
         /\ inv'.calls = inv.calls
    /\ Len(orders') > Len(orders) =>
         Some(orders'[Len(orders')].client) =
             exchange_clients[<<Alert.user_id, Config.exchange>>]

C17_CacheNeverInvalidated == [][CacheStep]_vars

\* An order has just been placed with the cached client although the key
\* pair it was built from has since been deleted from the vault.
C17_Witness ==
    /\ inv.pc = "save"
    /\ inv.order_id # None
    /\ ~Called("get_exchange_api_key")
    /\ vault[<<Alert.user_id, Config.exchange>>] = None
    /\ orders[inv.order_id[1]].client = inv.client[1]
    /\ inv.client = exchange_clients[<<Alert.user_id, Config.exchange>>]

\* The same after the key pair was overwritten with another one.
C17_WitnessOverwritten ==
    /\ inv.pc = "save"
    /\ inv.order_id # None
    /\ ~Called("get_exchange_api_key")
    /\ get_exchange_api_key(Alert.user_id, Config.exchange) \notin
           {None, Some(inv.client[1].apiKey)}
    /\ orders[inv.order_id[1]].client = inv.client[1]

====
